---- MODULE Spec2Model ----
(***************************************************************************)
(* Model of phone-validator-express (src/index.js): the pattern registry,  *)
(* validatePhoneNumber, the canonicalizer formatPhoneNumber, the format    *)
(* renderer and formatPhone.                                               *)
(*                                                                         *)
(* A JavaScript value is a record [kind, str]: kind is the typeof-like tag *)
(* ("string", "number", "null", "undefined", "function") and str the text  *)
(* of a string as a sequence of chunks.  A phone number is a sequence of   *)
(* one-character chunks; a message built by a template literal is the      *)
(* sequence of its literal parts and interpolated values.  A JavaScript    *)
(* boolean-or-undefined (the isValid field) is one of "true", "false",     *)
(* "undefined".                                                            *)
(***************************************************************************)
EXTENDS Integers, Sequences, FiniteSets, TLC

\* one call of a library function: its arguments, its position and its results
VARIABLES phoneNumber, country, type, format, customFormatter, pc, result,
          output, supported

callVars == <<phoneNumber, country, type, format, customFormatter, pc, result,
              output, supported>>

\* one request through a phoneValidator middleware: the validator's options,
\* req.body as received and now, req.validationErrors, the calls of next and
\* the responses sent
VARIABLES options, body0, body, validationErrors, nextCalls, responses, mwpc

mwVars == <<options, body0, body, validationErrors, nextCalls, responses, mwpc>>

\* a request through a chain of middlewares: the options of its validators in
\* order, the position in the chain, and what each middleware that ran did
VARIABLES chain, step, ran

pipeVars == <<chain, step, ran>>

vars == <<callVars, mwVars, pipeVars>>

----------------------------------------------------------------------------
(* JavaScript values *)

Null == [kind |-> "null", str |-> <<>>]

Undefined == [kind |-> "undefined", str |-> <<>>]

Str(s) == [kind |-> "string", str |-> s]

Num(s) == [kind |-> "number", str |-> s]

\* !v for the values the model uses: null, undefined, "" and 0 are falsy
Falsy(v) ==
    \/ v.kind \in {"null", "undefined"}
    \/ v.kind = "string" /\ v.str = <<>>
    \/ v.kind = "number" /\ v.str = <<"0">>

\* truthiness and a || b on "true" / "false" / "undefined"
JsTruthy(b) == b = "true"

JsOr(a, b) == IF JsTruthy(a) THEN a ELSE b

JsBool(b) == IF b THEN "true" ELSE "false"

----------------------------------------------------------------------------
(* Characters and string methods *)

Digit == {"0", "1", "2", "3", "4", "5", "6", "7", "8", "9"}

\* \s: the white space characters of the model's alphabet
WhiteSpace == {" ", "\t"}

startsWith(s, p) ==
    /\ Len(s) >= Len(p)
    /\ \A i \in 1..Len(p) : s[i] = p[i]

includes(s, ch) == \E i \in 1..Len(s) : s[i] = ch

\* s.substring(n): the characters from index n (0-based) on
substring(s, n) == IF n >= Len(s) THEN <<>> ELSE SubSeq(s, n + 1, Len(s))

\* s.substring(a, b): the characters at 0-based indices a .. b-1
substring2(s, a, b) ==
    IF a >= Len(s) THEN <<>>
    ELSE SubSeq(s, a + 1, IF b > Len(s) THEN Len(s) ELSE b)

\* s.replace(/[cls]/g, '')
replaceAll(s, cls) == SelectSeq(s, LAMBDA ch : ch \notin cls)

\* s.trim()
RECURSIVE trimStart(_)
trimStart(s) ==
    IF s # <<>> /\ Head(s) \in WhiteSpace THEN trimStart(Tail(s)) ELSE s

RECURSIVE trimEnd(_)
trimEnd(s) ==
    IF s # <<>> /\ s[Len(s)] \in WhiteSpace
    THEN trimEnd(SubSeq(s, 1, Len(s) - 1)) ELSE s

trim(s) == trimEnd(trimStart(s))

----------------------------------------------------------------------------
(* Regular expressions: an anchored pattern ^...$ is a set of alternatives,*)
(* each a sequence of items "between lo and hi characters of class c".     *)

Rep(cls, lo, hi) == [c |-> cls, lo |-> lo, hi |-> hi]

One(cls) == Rep(cls, 1, 1)

Lit(ch) == Rep({ch}, 1, 1)

Opt(cls) == Rep(cls, 0, 1)

RECURSIVE MatchAt(_, _, _, _)
MatchAt(items, i, s, p) ==
    IF i > Len(items) THEN p = Len(s) + 1
    ELSE \E k \in (items[i].lo)..(items[i].hi) :
            /\ p + k - 1 <= Len(s)
            /\ \A j \in p..(p + k - 1) : s[j] \in items[i].c
            /\ MatchAt(items, i + 1, s, p + k)

\* re.test(s), as a JavaScript boolean
RegExpTest(re, s) == JsBool(\E alt \in re : MatchAt(alt, 1, s, 1))

D29 == {"2", "3", "4", "5", "6", "7", "8", "9"}

D69 == {"6", "7", "8", "9"}

D19 == {"1", "2", "3", "4", "5", "6", "7", "8", "9"}

USSep == {"-", ".", " "}

\* /^[6-9]\d{9}$/
IN_mobile == { <<One(D69), Rep(Digit, 9, 9)>> }

\* /^[2-9]\d{7,8}$/
IN_landline == { <<One(D29), Rep(Digit, 7, 8)>> }

\* /^\+91[6-9]\d{9}$/
IN_withCountryCode ==
    { <<Lit("+"), Lit("9"), Lit("1"), One(D69), Rep(Digit, 9, 9)>> }

\* /^\(?([2-9]\d{2})\)?[-. ]?([2-9]\d{2})[-. ]?(\d{4})$/
US_mobile ==
    { <<Opt({"("}), One(D29), Rep(Digit, 2, 2), Opt({")"}), Opt(USSep),
        One(D29), Rep(Digit, 2, 2), Opt(USSep), Rep(Digit, 4, 4)>> }

\* /^\+1[2-9]\d{2}[2-9]\d{6}$/
US_withCountryCode ==
    { <<Lit("+"), Lit("1"), One(D29), Rep(Digit, 2, 2), One(D29),
        Rep(Digit, 6, 6)>> }

\* /^(\+44\s?7\d{3}|\(?07\d{3}\)?)\s?\d{3}\s?\d{3}$/
UK_mobile ==
    { <<Lit("+"), Lit("4"), Lit("4"), Opt(WhiteSpace), Lit("7"),
        Rep(Digit, 3, 3),
        Opt(WhiteSpace), Rep(Digit, 3, 3), Opt(WhiteSpace), Rep(Digit, 3, 3)>>,
      <<Opt({"("}), Lit("0"), Lit("7"), Rep(Digit, 3, 3), Opt({")"}),
        Opt(WhiteSpace), Rep(Digit, 3, 3), Opt(WhiteSpace), Rep(Digit, 3, 3)>> }

\* /^(\+44\s?[1-9]\d{2}|\(?0[1-9]\d{2}\)?)\s?\d{3}\s?\d{4}$/
UK_landline ==
    { <<Lit("+"), Lit("4"), Lit("4"), Opt(WhiteSpace), One(D19),
        Rep(Digit, 2, 2),
        Opt(WhiteSpace), Rep(Digit, 3, 3), Opt(WhiteSpace), Rep(Digit, 4, 4)>>,
      <<Opt({"("}), Lit("0"), One(D19), Rep(Digit, 2, 2), Opt({")"}),
        Opt(WhiteSpace), Rep(Digit, 3, 3), Opt(WhiteSpace), Rep(Digit, 4, 4)>> }

\* /^\+[1-9]\d{1,14}$/
INTERNATIONAL == { <<Lit("+"), One(D19), Rep(Digit, 1, 14)>> }

\* The keys of PHONE_PATTERNS in insertion order
PHONE_PATTERNS_keys == <<"IN", "US", "UK", "INTERNATIONAL">>

\* PHONE_PATTERNS: a country entry is an object with grammar properties;
\* the INTERNATIONAL entry is itself a RegExp and has none of them.
PHONE_PATTERNS ==
    [k \in {"IN", "US", "UK", "INTERNATIONAL"} |->
        CASE k = "IN" -> [kind |-> "object",
                          props |-> [mobile |-> IN_mobile,
                                     landline |-> IN_landline,
                                     withCountryCode |-> IN_withCountryCode]]
          [] k = "US" -> [kind |-> "object",
                          props |-> [mobile |-> US_mobile,
                                     withCountryCode |-> US_withCountryCode]]
          [] k = "UK" -> [kind |-> "object",
                          props |-> [mobile |-> UK_mobile,
                                     landline |-> UK_landline]]
          [] k = "INTERNATIONAL" -> [kind |-> "regexp",
                                     props |-> [source |-> INTERNATIONAL]]]

\* PHONE_PATTERNS[country] is truthy
HasPatterns(c) == c \in DOMAIN PHONE_PATTERNS

\* patterns.g is defined
HasGrammar(c, g) == HasPatterns(c) /\ g \in DOMAIN PHONE_PATTERNS[c].props

\* patterns.g && patterns.g.test(cleaned)
GrammarAndTest(c, g, cleaned) ==
    IF HasGrammar(c, g)
    THEN RegExpTest(PHONE_PATTERNS[c].props[g], cleaned)
    ELSE "undefined"

----------------------------------------------------------------------------
(* Format metadata *)

\* FORMAT_PLACEHOLDERS[country].examples[type]
FORMAT_EXAMPLES ==
    [IN |-> [mobile |-> << <<"9","8","7","6","5","4","3","2","1","0">>,
                           <<"+","9","1","9","8","7","6","5","4","3","2","1","0">> >>,
             landline |-> << <<"0","2","2","1","2","3","4","5","6","7","8">>,
                             <<"+","9","1","2","2","1","2","3","4","5","6","7","8">> >>],
     US |-> [mobile |-> << <<"(","5","5","5",")"," ","2","3","4","-","5","6","7","8">>,
                           <<"5","5","5","-","2","3","4","-","5","6","7","8">>,
                           <<"5","5","5","2","3","4","5","6","7","8">>,
                           <<"+","1","5","5","5","2","3","4","5","6","7","8">> >>,
             landline |-> << <<"(","5","5","5",")"," ","1","2","3","-","4","5","6","7">>,
                             <<"5","5","5","-","1","2","3","-","4","5","6","7">>,
                             <<"5","5","5","1","2","3","4","5","6","7">>,
                             <<"+","1","5","5","5","1","2","3","4","5","6","7">> >>],
     UK |-> [mobile |-> << <<"0","7","1","2","3","4","5","6","7","8","9">>,
                           <<"+","4","4","7","1","2","3","4","5","6","7","8","9">> >>,
             landline |-> << <<"0","2","0","1","2","3","4","5","6","7","8">>,
                             <<"+","4","4","2","0","1","2","3","4","5","6","7","8">> >>]]

\* getFormatExamples(country, type): the list, or <<>> for null
getFormatExamples(c, t) ==
    IF c \notin DOMAIN FORMAT_EXAMPLES THEN <<>>
    ELSE IF t \notin DOMAIN FORMAT_EXAMPLES[c] THEN <<>>
    ELSE FORMAT_EXAMPLES[c][t]

\* getSupportedCountries()
getSupportedCountries == PHONE_PATTERNS_keys

----------------------------------------------------------------------------
(* The canonicalizer *)

Punct == WhiteSpace \cup {"-", "(", ")"}

formatPhoneNumber(p, c) ==
    CASE c = "IN" ->
            IF startsWith(p, <<"+", "9", "1">>) THEN p
            ELSE <<"+", "9", "1">> \o p
      [] c = "US" ->
            IF startsWith(p, <<"+", "1">>) THEN p
            ELSE IF includes(p, "(") /\ includes(p, ")")
                 THEN <<"+", "1">> \o replaceAll(p, Punct)
            ELSE IF Len(p) = 10 THEN <<"+", "1">> \o p
            ELSE p
      [] c = "UK" ->
            IF startsWith(p, <<"+", "4", "4">>) THEN p
            ELSE IF startsWith(p, <<"0">>) THEN <<"+", "4", "4">> \o substring(p, 1)
            ELSE <<"+", "4", "4">> \o p
      [] OTHER -> IF startsWith(p, <<"+">>) THEN p ELSE <<"+">> \o p

----------------------------------------------------------------------------
(* The validator *)

\* the missing-input result
RequiredOutcome ==
    [isValid |-> "false",
     error |-> Str(<<"Phone number is required and must be a string">>),
     formatted |-> Null,
     errorType |-> Str(<<"required">>)]

\* the unsupported-country result
UnsupportedOutcome(c) ==
    [isValid |-> "false",
     error |-> Str(<<"Unsupported country code: ", c>>),
     formatted |-> Null,
     errorType |-> Str(<<"invalidFormat">>)]

\* Accepts with the mobile branch testing the mobile grammar alone
Accepts_MobileGrammarOnly(c, t, cleaned) ==
    CASE t = "mobile" -> GrammarAndTest(c, "mobile", cleaned)
      [] t = "landline" ->
            IF HasGrammar(c, "landline")
            THEN RegExpTest(PHONE_PATTERNS[c].props["landline"], cleaned)
            ELSE "false"
      [] t = "any" ->
            JsOr(JsOr(GrammarAndTest(c, "mobile", cleaned),
                      GrammarAndTest(c, "landline", cleaned)),
                 GrammarAndTest(c, "withCountryCode", cleaned))
      [] OTHER -> "false"

\* the acceptance decision on the cleaned input
Accepts(c, t, cleaned) ==
    CASE t = "mobile" ->
            JsOr(GrammarAndTest(c, "mobile", cleaned),
                 GrammarAndTest(c, "withCountryCode", cleaned))
      [] t = "landline" ->
            IF HasGrammar(c, "landline")
            THEN RegExpTest(PHONE_PATTERNS[c].props["landline"], cleaned)
            ELSE "false"
      [] t = "any" ->
            JsOr(JsOr(GrammarAndTest(c, "mobile", cleaned),
                      GrammarAndTest(c, "landline", cleaned)),
                 GrammarAndTest(c, "withCountryCode", cleaned))
      [] OTHER -> "false"

\* DecidedOutcome returning the cleaned input as formatted on rejection too
DecidedOutcome_FormattedKept(isValid, formatted, c, t) ==
    [isValid |-> isValid,
     error |-> IF JsTruthy(isValid) THEN Null
               ELSE Str(<<"Invalid ", t, " phone number for ", c>>),
     formatted |-> Str(formatted),
     errorType |-> IF JsTruthy(isValid) THEN Null ELSE Str(<<"invalidFormat">>)]

\* the result returned after the decision
DecidedOutcome(isValid, formatted, c, t) ==
    [isValid |-> isValid,
     error |-> IF JsTruthy(isValid) THEN Null
               ELSE Str(<<"Invalid ", t, " phone number for ", c>>),
     formatted |-> IF JsTruthy(isValid) THEN Str(formatted) ELSE Null,
     errorType |-> IF JsTruthy(isValid) THEN Null ELSE Str(<<"invalidFormat">>)]

\* validatePhoneNumber looking the country up before the missing-input check
validatePhoneNumber_CountryFirst(p, c, t) ==
    IF ~HasPatterns(c) THEN UnsupportedOutcome(c)
    ELSE IF Falsy(p) \/ p.kind # "string" THEN RequiredOutcome
    ELSE LET cleaned == replaceAll(p.str, WhiteSpace \cup {"-"})
             isValid == Accepts(c, t, cleaned)
             formatted == IF JsTruthy(isValid)
                          THEN formatPhoneNumber(cleaned, c)
                          ELSE cleaned
         IN  DecidedOutcome(isValid, formatted, c, t)

validatePhoneNumber(p, c, t) ==
    IF Falsy(p) \/ p.kind # "string" THEN RequiredOutcome
    ELSE LET cleaned == replaceAll(p.str, WhiteSpace \cup {"-"})
         IN  IF ~HasPatterns(c) THEN UnsupportedOutcome(c)
             ELSE LET isValid == Accepts(c, t, cleaned)
                      formatted == IF JsTruthy(isValid)
                                   THEN formatPhoneNumber(cleaned, c)
                                   ELSE cleaned
                  IN  DecidedOutcome(isValid, formatted, c, t)

----------------------------------------------------------------------------
(* The format renderer *)

countryCodes ==
    [IN |-> <<"+", "9", "1">>, US |-> <<"+", "1">>, UK |-> <<"+", "4", "4">>]

extractNationalNumber(p, c) ==
    IF c \in DOMAIN countryCodes /\ startsWith(p, countryCodes[c])
    THEN substring(p, Len(countryCodes[c]))
    ELSE IF c = "US" /\ includes(p, "(") /\ includes(p, ")")
    THEN replaceAll(p, Punct)
    ELSE p

formatPhoneNumberAuto(p, c) ==
    LET nationalNumber == extractNationalNumber(p, c)
    IN  CASE c = "IN" -> <<"+", "9", "1", " ">> \o nationalNumber
          [] c = "US" ->
                IF Len(nationalNumber) = 10
                THEN <<"+", "1", " ", "(">> \o substring2(nationalNumber, 0, 3)
                     \o <<")", " ">> \o substring2(nationalNumber, 3, 6)
                     \o <<"-">> \o substring(nationalNumber, 6)
                ELSE p
          [] c = "UK" ->
                IF Len(nationalNumber) = 10
                THEN <<"+", "4", "4", " ">> \o substring2(nationalNumber, 0, 4)
                     \o <<" ">> \o substring2(nationalNumber, 4, 7)
                     \o <<" ">> \o substring(nationalNumber, 7)
                ELSE p
          [] OTHER -> p

\* the caller's formatter: the one of the tests, (phone, country) =>
\* `[${country}] ${phone}`
CallFormatter(p, c) == Str(<<"[", c, "] ">> \o p.str)

\* a formatter function that returns, and one that throws
Fn == [kind |-> "function", str |-> <<>>]

Thrower == [kind |-> "function", str |-> <<"throws">>]

FormatterError == [kind |-> "error", str |-> <<"formatter failed">>]

\* an outcome of a call: a returned value or a thrown error, with the
\* arguments of the calls of the custom formatter it made
Return(v) == [kind |-> "return", value |-> v, calls |-> <<>>]

\* customFormatter(phoneNumber, country)
InvokeFormatter(fn, p, c) ==
    IF fn = Thrower
    THEN [kind |-> "throw", value |-> FormatterError, calls |-> << <<p, c>> >>]
    ELSE [kind |-> "return", value |-> CallFormatter(p, c), calls |-> << <<p, c>> >>]

\* formatPhoneNumberWithOptions rendering 'international' as dial code + input
formatPhoneNumberWithOptions_IntlPrepends(p, c, f, fn) ==
    IF Falsy(p) THEN Return(p)
    ELSE IF f = "custom" /\ fn.kind = "function" THEN InvokeFormatter(fn, p, c)
    ELSE CASE f = "international" ->
                Return(Str((IF c \in DOMAIN countryCodes THEN countryCodes[c]
                            ELSE <<"+">>) \o p.str))
           [] f = "national" -> Return(Str(extractNationalNumber(p.str, c)))
           [] f = "raw" -> Return(Str(replaceAll(p.str, Punct)))
           [] OTHER -> Return(Str(formatPhoneNumberAuto(p.str, c)))

formatPhoneNumberWithOptions(p, c, f, fn) ==
    IF Falsy(p) THEN Return(p)
    ELSE IF f = "custom" /\ fn.kind = "function" THEN InvokeFormatter(fn, p, c)
    ELSE CASE f = "international" -> Return(p)
           [] f = "national" -> Return(Str(extractNationalNumber(p.str, c)))
           [] f = "raw" -> Return(Str(replaceAll(p.str, Punct)))
           [] OTHER -> Return(Str(formatPhoneNumberAuto(p.str, c)))

\* formatPhone returning the validation's formatted field whatever the verdict
formatPhone_NoValidityCheck(p, c, f, fn) ==
    IF Falsy(p) THEN Return(p)
    ELSE LET validation == validatePhoneNumber(p, c, "any")
         IN  formatPhoneNumberWithOptions(validation.formatted, c, f, fn)

\* formatPhone rendering the input instead of the validated number
formatPhone_RendersInput(p, c, f, fn) ==
    IF Falsy(p) THEN Return(p)
    ELSE LET validation == validatePhoneNumber(p, c, "any")
         IN  IF ~JsTruthy(validation.isValid) THEN Return(p)
             ELSE formatPhoneNumberWithOptions(p, c, f, fn)

formatPhone(p, c, f, fn) ==
    IF Falsy(p) THEN Return(p)
    ELSE LET validation == validatePhoneNumber(p, c, "any")
         IN  IF ~JsTruthy(validation.isValid) THEN Return(p)
             ELSE LET validatedNumber ==
                          IF Falsy(validation.formatted) THEN p
                          ELSE validation.formatted
                  IN  formatPhoneNumberWithOptions(validatedNumber, c, f, fn)

----------------------------------------------------------------------------
(* The middleware *)

\* FORMAT_PLACEHOLDERS[country][type] for type mobile and landline
FORMAT_PLACEHOLDER ==
    [IN |-> [mobile |-> <<"9","8","7","6","5","4","3","2","1","0">>,
             landline |-> <<"0","2","2","1","2","3","4","5","6","7","8">>],
     US |-> [mobile |-> <<"(","5","5","5",")"," ","2","3","4","-","5","6","7","8">>,
             landline |-> <<"(","5","5","5",")"," ","1","2","3","-","4","5","6","7">>],
     UK |-> [mobile |-> <<"0","7","1","2","3","4","5","6","7","8","9">>,
             landline |-> <<"0","2","0","1","2","3","4","5","6","7","8">>]]

\* getFormatPlaceholder(country, type)
getFormatPlaceholder(c, t) ==
    IF c \notin DOMAIN FORMAT_PLACEHOLDER THEN Null
    ELSE IF t \notin DOMAIN FORMAT_PLACEHOLDER[c] THEN Null
    ELSE Str(FORMAT_PLACEHOLDER[c][t])

\* examples.join(', ')
RECURSIVE join(_)
join(list) ==
    IF list = <<>> THEN <<>>
    ELSE IF Len(list) = 1 THEN list[1]
    ELSE list[1] \o <<", ">> \o join(Tail(list))

ErrorKeys == {"required", "invalidFormat", "invalidLength", "empty", "invalid"}

\* defaultErrors of phoneValidator(fieldName, {country, type})
defaultErrors(fieldName, c, t) ==
    LET placeholder == getFormatPlaceholder(c, t)
        examples == getFormatExamples(c, t)
        expected == IF Falsy(placeholder) THEN <<>>
                    ELSE <<". Expected format: ">> \o placeholder.str
        exampleText == IF Len(examples) = 0 THEN <<>>
                       ELSE IF Len(examples) > 1
                       THEN <<" ", "Examples: ">> \o join(examples)
                       ELSE <<" ", "Example: ">> \o examples[1]
    IN  [required |-> Str(<<fieldName, " is required">>),
         invalidFormat |-> Str(<<"Invalid ", t, " phone number for ", c>>
                               \o expected \o exampleText),
         invalidLength |-> Str(<<"Phone number must be valid length for ", c>>
                               \o expected \o exampleText),
         empty |-> Str(<<fieldName, " cannot be empty">>),
         invalid |-> Str(<<"Please provide a valid ", fieldName>>
                         \o expected \o exampleText)]

\* { ...defaultErrors, ...errorMessages }: a message the options leave
\* Undefined is not a key of errorMessages
mergedErrors(o) ==
    [k \in ErrorKeys |->
        IF o.errorMessages[k] # Undefined THEN o.errorMessages[k]
        ELSE defaultErrors(o.fieldName, o.country, o.type)[k]]

\* a || b on values
OrElse(a, b) == IF Falsy(a) THEN b ELSE a

ValidationError(message, field, value) ==
    [kind |-> "ValidationError", message |-> message, field |-> field,
     value |-> value]

\* value.trim() on a value that is not a string
TypeError == [kind |-> "error", str |-> <<"value.trim is not a function">>]

\* how the try block ends: by calling next(), or by a throw
CallsNext(b) == [kind |-> "next", body |-> b, error |-> Null]

Throws(e) == [kind |-> "throw", body |-> <<>>, error |-> e]

\* the message of a value validatePhoneNumber rejected with the result res
rejectionMessage(customMessage, errors, res) ==
    IF res.errorType = Str(<<"required">>) THEN errors.required
    ELSE IF res.errorType = Str(<<"invalidLength">>) THEN errors.invalidLength
    ELSE IF res.errorType = Str(<<"invalidFormat">>) THEN errors.invalidFormat
    ELSE OrElse(customMessage, errors.invalid)

\* req.body[fieldName] = formatPhoneNumberWithOptions(...); next(), where r is
\* how the call of formatPhoneNumberWithOptions ended
tryRendered(o, b, r) ==
    IF r.kind = "throw" THEN Throws(r.value)
    ELSE CallsNext([b EXCEPT ![o.fieldName] = r.value])

\* the try block after res = validatePhoneNumber(value, country, type)
tryValidated(o, b, value, errors, res) ==
    IF ~JsTruthy(res.isValid)
    THEN Throws(ValidationError(rejectionMessage(o.customMessage, errors, res),
                                o.fieldName, value))
    ELSE IF JsTruthy(res.isValid) /\ ~Falsy(res.formatted)
    THEN tryRendered(o, b,
                     formatPhoneNumberWithOptions(res.formatted, o.country,
                                                  o.format, o.customFormatter))
    ELSE CallsNext(b)

\* tryValue treating an empty optional field like a required one
tryValue_IgnoresRequired(o, b, value, errors) ==
    IF ~Falsy(value) /\ value.kind # "string" THEN Throws(TypeError)
    ELSE IF Falsy(value) \/ trim(value.str) = <<>>
    THEN Throws(ValidationError(OrElse(o.customMessage, errors.required),
                                o.fieldName, value))
    ELSE tryValidated(o, b, value, errors,
                      validatePhoneNumber(value, o.country, o.type))

\* the try block after value = req.body[fieldName], with the merged messages
tryValue(o, b, value, errors) ==
    IF ~Falsy(value) /\ value.kind # "string" THEN Throws(TypeError)
    ELSE IF Falsy(value) \/ trim(value.str) = <<>>
    THEN IF ~o.required THEN CallsNext(b)
         ELSE Throws(ValidationError(OrElse(o.customMessage, errors.required),
                                     o.fieldName, value))
    ELSE IF trim(value.str) = <<>>
    THEN Throws(ValidationError(OrElse(o.customMessage, errors.empty),
                                o.fieldName, value))
    ELSE tryValidated(o, b, value, errors,
                      validatePhoneNumber(value, o.country, o.type))

\* the try block of the middleware of options o, on the body b
tryBlock(o, b) == tryValue(o, b, b[o.fieldName], mergedErrors(o))

\* ValidationResult.addError, then ValidationResult.array()
ValidationResult_errors(e) ==
    << [field |-> e.field, message |-> e.message, value |-> e.value] >>

\* new ValidationResult() holding the errors errs
ValidationResult(errs) == [kind |-> "ValidationResult", errors |-> errs]

ValidationResult_array(errs) ==
    [i \in 1..Len(errs) |->
        [type |-> "field", msg |-> errs[i].message, value |-> errs[i].value,
         path |-> errs[i].field, location |-> "body"]]

\* res.status(400).json({status, message, errors})
ValidationFailed(errs) ==
    [status |-> 400,
     json |-> [status |-> "error", message |-> "Validation failed",
               errors |-> ValidationResult_array(errs)]]

\* next()
NoArg == [kind |-> "noarg", str |-> <<>>]

\* catchBlock also calling next() after it sent the 400 response
catchBlock_NextAfterResponse(b, ve, t) ==
    IF t.kind = "next"
    THEN [body |-> t.body, validationErrors |-> ve,
          nextCalls |-> <<NoArg>>, responses |-> <<>>]
    ELSE IF t.error.kind = "ValidationError"
    THEN [body |-> b, validationErrors |-> ValidationResult(ValidationResult_errors(t.error)),
          nextCalls |-> <<NoArg>>,
          responses |-> <<ValidationFailed(ValidationResult_errors(t.error))>>]
    ELSE [body |-> b, validationErrors |-> ve,
          nextCalls |-> <<t.error>>, responses |-> <<>>]

\* catchBlock dropping what the try block wrote to the body
catchBlock_KeepsSubmitted(b, ve, t) ==
    IF t.kind = "next"
    THEN [body |-> b, validationErrors |-> ve,
          nextCalls |-> <<NoArg>>, responses |-> <<>>]
    ELSE IF t.error.kind = "ValidationError"
    THEN [body |-> b, validationErrors |-> ValidationResult(ValidationResult_errors(t.error)),
          nextCalls |-> <<>>,
          responses |-> <<ValidationFailed(ValidationResult_errors(t.error))>>]
    ELSE [body |-> b, validationErrors |-> ve,
          nextCalls |-> <<t.error>>, responses |-> <<>>]

\* catchBlock dropping an error that is not a ValidationError
catchBlock_SwallowsFault(b, ve, t) ==
    IF t.kind = "next"
    THEN [body |-> t.body, validationErrors |-> ve,
          nextCalls |-> <<NoArg>>, responses |-> <<>>]
    ELSE IF t.error.kind = "ValidationError"
    THEN [body |-> b, validationErrors |-> ValidationResult(ValidationResult_errors(t.error)),
          nextCalls |-> <<>>,
          responses |-> <<ValidationFailed(ValidationResult_errors(t.error))>>]
    ELSE [body |-> b, validationErrors |-> ve,
          nextCalls |-> <<>>, responses |-> <<>>]

\* what the middleware leaves when its try block, run on the body b and
\* req.validationErrors ve, ended as t: catch (error) { ... }
catchBlock(b, ve, t) ==
    IF t.kind = "next"
    THEN [body |-> t.body, validationErrors |-> ve,
          nextCalls |-> <<NoArg>>, responses |-> <<>>]
    ELSE IF t.error.kind = "ValidationError"
    THEN [body |-> b, validationErrors |-> ValidationResult(ValidationResult_errors(t.error)),
          nextCalls |-> <<>>,
          responses |-> <<ValidationFailed(ValidationResult_errors(t.error))>>]
    ELSE [body |-> b, validationErrors |-> ve,
          nextCalls |-> <<t.error>>, responses |-> <<>>]

\* (req, res, next) => { try { ... } catch (error) { ... } }: one run of the
\* middleware of options o
phoneValidatorHandler(o, b, ve) == catchBlock(b, ve, tryBlock(o, b))

\* validateRequest(req, res, next)
validateRequest(b, ve) ==
    IF ve.kind = "ValidationResult" /\ Len(ve.errors) # 0
    THEN [body |-> b, validationErrors |-> ve, nextCalls |-> <<>>,
          responses |-> <<ValidationFailed(ve.errors)>>]
    ELSE [body |-> b, validationErrors |-> ve, nextCalls |-> <<NoArg>>,
          responses |-> <<>>]

----------------------------------------------------------------------------
(* The calls the model makes: their arguments *)

\* extra digits a number's last group may carry beyond three
MaxExtra == 2

\* length of the longest blank-only input
MaxBlank == 2

Countries == {"IN", "US", "UK", "INTERNATIONAL", "XX"}

Supported == {"IN", "US", "UK"}

Types == {"mobile", "landline", "any", "fax"}

Formats == {"auto", "international", "national", "raw", "custom"}

Formatters == {Null, Fn, Thrower, Str(<<"x">>)}

Intl == {<<>>, <<"+", "9", "1">>, <<"+", "1">>, <<"+", "4", "4">>}

Opening == {<<>>, <<"(">>}

Trunk == {<<>>, <<"0">>}

Area == {<<"2", "2">>, <<"5", "5", "5">>, <<"9", "8", "7">>,
         <<"7", "1", "2", "3">>, <<"1", "2", "3">>}

Closing == {<<>>, <<")">>}

Sep == {<<>>, <<".">>, <<"-">>, <<" ">>}

Mid == <<"2", "3", "4">>

LastDigits == <<"5", "6", "7", "8", "9", "0", "1", "2", "3">>

Last == {SubSeq(LastDigits, 1, 3 + k) : k \in 0..MaxExtra}

Shaped ==
    {i \o o \o t \o a \o c \o s1 \o Mid \o s2 \o l :
        i \in Intl, o \in Opening, t \in Trunk, a \in Area, c \in Closing,
        s1 \in Sep, s2 \in Sep, l \in Last}

Blank == {[j \in 1..k |-> " "] : k \in 1..MaxBlank} \cup {<<"\t">>}

ExampleStrings ==
    {FORMAT_EXAMPLES[c][t][i] :
        <<c, t, i>> \in {x \in (DOMAIN FORMAT_EXAMPLES) \X {"mobile", "landline"} \X (1..4) :
                            x[3] <= Len(FORMAT_EXAMPLES[x[1]][x[2]])}}

Inputs ==
    {Null, Undefined, Str(<<>>), Num(<<"0">>), Num(<<"7">>)}
    \cup {Str(s) : s \in Shaped \cup Blank \cup ExampleStrings}

\* no request is in progress
MwIdle ==
    /\ options = <<>>
    /\ body0 = <<>>
    /\ body = <<>>
    /\ validationErrors = Undefined
    /\ nextCalls = <<>>
    /\ responses = <<>>
    /\ mwpc = "idle"

\* no chain of middlewares is set up
PipeIdle ==
    /\ chain = <<>>
    /\ step = 0
    /\ ran = <<>>

NoResult ==
    [isValid |-> "none", error |-> Null, formatted |-> Null, errorType |-> Null]

NoOutput == [kind |-> "none", value |-> Null, calls |-> <<>>]

----------------------------------------------------------------------------
(* The state machine: one call per behaviour *)

Init ==
    /\ phoneNumber \in Inputs
    /\ country = "unset"
    /\ type = "unset"
    /\ format = "unset"
    /\ customFormatter = Null
    /\ pc = "start"
    /\ result = NoResult
    /\ output = NoOutput
    /\ supported = <<>>
    /\ MwIdle
    /\ PipeIdle

\* validatePhoneNumber(phoneNumber, c, t)
Validate ==
    /\ pc = "start"
    /\ \E c \in Countries, t \in Types :
        /\ country' = c
        /\ type' = t
        /\ result' = validatePhoneNumber(phoneNumber, c, t)
    /\ pc' = "validated"
    /\ UNCHANGED <<phoneNumber, format, customFormatter, output, supported>>
    /\ UNCHANGED mwVars
    /\ UNCHANGED pipeVars

\* the raw rendering of an accepted number's canonical form, validated again
\* for the same country and type
Reparse ==
    /\ pc = "validated"
    /\ JsTruthy(result.isValid)
    /\ LET raw == formatPhoneNumberWithOptions(result.formatted, country, "raw", Null)
       IN  /\ output' = raw
           /\ result' = validatePhoneNumber(raw.value, country, type)
           /\ phoneNumber' = raw.value
    /\ format' = "raw"
    /\ pc' = "reparsed"
    /\ UNCHANGED <<country, type, customFormatter, supported>>
    /\ UNCHANGED mwVars
    /\ UNCHANGED pipeVars

\* formatPhone(phoneNumber, c, f, fn)
FormatPhone ==
    /\ pc = "start"
    /\ \E c \in Countries, f \in Formats, fn \in Formatters :
        /\ country' = c
        /\ format' = f
        /\ customFormatter' = fn
        /\ output' = formatPhone(phoneNumber, c, f, fn)
    /\ pc' = "formatted"
    /\ UNCHANGED <<phoneNumber, type, result, supported>>
    /\ UNCHANGED mwVars
    /\ UNCHANGED pipeVars

\* formatPhoneNumberWithOptions(phoneNumber, c, f, fn) on a string
Render ==
    /\ pc = "start"
    /\ phoneNumber.kind = "string"
    /\ \E c \in Countries, f \in Formats, fn \in Formatters :
        /\ country' = c
        /\ format' = f
        /\ customFormatter' = fn
        /\ output' = formatPhoneNumberWithOptions(phoneNumber, c, f, fn)
    /\ pc' = "rendered"
    /\ UNCHANGED <<phoneNumber, type, result, supported>>
    /\ UNCHANGED mwVars
    /\ UNCHANGED pipeVars

\* the same call again, on the value the first call returned
Again ==
    /\ pc \in {"formatted", "rendered"}
    /\ output.kind = "return"
    /\ phoneNumber' = output.value
    /\ output' = IF pc = "formatted"
                 THEN formatPhone(output.value, country, format, customFormatter)
                 ELSE formatPhoneNumberWithOptions(output.value, country, format,
                                                   customFormatter)
    /\ pc' = IF pc = "formatted" THEN "formattedAgain" ELSE "renderedAgain"
    /\ UNCHANGED <<country, type, format, customFormatter, result, supported>>
    /\ UNCHANGED mwVars
    /\ UNCHANGED pipeVars

\* getSupportedCountries()
GetSupportedCountries ==
    /\ pc = "start"
    /\ supported' = getSupportedCountries
    /\ pc' = "listed"
    /\ UNCHANGED <<phoneNumber, country, type, format, customFormatter, result,
                   output>>
    /\ UNCHANGED mwVars
    /\ UNCHANGED pipeVars

Next ==
    \/ Validate
    \/ Reparse
    \/ FormatPhone
    \/ Render
    \/ Again
    \/ GetSupportedCountries

Spec == Init /\ [][Next]_vars

----------------------------------------------------------------------------
(* The state machine of a request: one run of a phoneValidator middleware *)

FieldNames == {"phone", "alt"}

MwCountries == {"IN", "US", "UK", "XX"}

MwTypes == {"mobile", "landline", "any"}

NoMessages == [k \in ErrorKeys |-> Undefined]

\* the errorMessages of the tests: none, some, all but invalidLength
ErrorMessageOptions ==
    {NoMessages,
     [NoMessages EXCEPT !["required"] = Str(<<"Custom required message">>),
                        !["invalidFormat"] = Str(<<"Custom format message">>)],
     [NoMessages EXCEPT !["required"] = Str(<<"Please provide your phone number">>),
                        !["invalidFormat"] = Str(<<"Phone number format is incorrect">>),
                        !["empty"] = Str(<<"Phone number cannot be empty">>),
                        !["invalid"] = Str(<<"Invalid phone number provided">>)]}

CustomMessages == {Null, Str(<<"Legacy custom message">>)}

OptionsSet ==
    [fieldName : FieldNames, country : MwCountries, type : MwTypes,
     required : BOOLEAN, customMessage : CustomMessages, format : Formats,
     customFormatter : Formatters, errorMessages : ErrorMessageOptions]

MwStrings ==
    {<<>>, <<"2", "2", "2", "3", "4", "5", "6", "7">>,
     <<"5", "5", "5", ".", "2", "3", "4", ".", "5", "6", "7", "8">>,
     <<"1", "2", "3", "2", "3", "4", "5", "6", "7", "8">>}
    \cup Blank \cup ExampleStrings

\* the values of a body field; Undefined is an absent field
MwValues ==
    {Undefined, Null, Num(<<"0">>), Num(<<"7">>)} \cup {Str(s) : s \in MwStrings}

AltValues == {Undefined, Str(<<"9", "8", "7", "6", "5", "4", "3", "2", "1", "0">>)}

Bodies == {[phone |-> v, alt |-> w] : v \in MwValues, w \in AltValues}

InitMw ==
    /\ phoneNumber = Null
    /\ country = "unset"
    /\ type = "unset"
    /\ format = "unset"
    /\ customFormatter = Null
    /\ pc = "off"
    /\ result = NoResult
    /\ output = NoOutput
    /\ supported = <<>>
    /\ options = <<>>
    /\ body0 \in Bodies
    /\ body = body0
    /\ validationErrors = Undefined
    /\ nextCalls = <<>>
    /\ responses = <<>>
    /\ mwpc = "received"
    /\ PipeIdle

\* phoneValidator(o.fieldName, o)(req, res, next)
RunPhoneValidator ==
    /\ mwpc = "received"
    /\ \E o \in OptionsSet :
        \E after \in {phoneValidatorHandler(o, body, validationErrors)} :
            /\ options' = o
            /\ body' = after.body
            /\ validationErrors' = after.validationErrors
            /\ nextCalls' = after.nextCalls
            /\ responses' = after.responses
    /\ mwpc' = "done"
    /\ UNCHANGED body0
    /\ UNCHANGED callVars
    /\ UNCHANGED pipeVars

NextMw == RunPhoneValidator

SpecMw == InitMw /\ [][NextMw]_vars

----------------------------------------------------------------------------
(* The state machine of a request through a chain: phoneValidator
   middlewares for distinct fields, then validateRequest, then the route *)

\* the options of the validators of a chain of two
PipeOptions(f) ==
    [fieldName : {f}, country : {"IN", "XX"}, type : {"mobile"},
     required : BOOLEAN, customMessage : {Null}, format : {"auto", "custom"},
     customFormatter : {Null, Thrower}, errorMessages : {NoMessages}]

PipeValues ==
    {Undefined, Num(<<"7">>), Str(<<" ">>),
     Str(<<"9", "8", "7", "6", "5", "4", "3", "2", "1", "0">>),
     Str(<<"1", "2", "3", "2", "3", "4", "5", "6", "7", "8">>)}

PipeBodies == {[phone |-> v, alt |-> w] : v \in PipeValues, w \in PipeValues}

\* app.post(path, phoneValidator(f, o), validateRequest, route)
InitOne ==
    /\ chain \in {<<o>> : o \in OptionsSet}
    /\ body0 \in Bodies

\* app.post(path, phoneValidator(f, o1), phoneValidator(g, o2),
\*          validateRequest, route)
InitTwo ==
    /\ chain \in {<<o1, o2>> : o1 \in PipeOptions("phone"), o2 \in PipeOptions("alt")}
             \cup {<<o2, o1>> : o1 \in PipeOptions("phone"), o2 \in PipeOptions("alt")}
    /\ body0 \in PipeBodies

InitPipe ==
    /\ phoneNumber = Null
    /\ country = "unset"
    /\ type = "unset"
    /\ format = "unset"
    /\ customFormatter = Null
    /\ pc = "off"
    /\ result = NoResult
    /\ output = NoOutput
    /\ supported = <<>>
    /\ options = <<>>
    /\ (InitOne \/ InitTwo)
    /\ body = body0
    /\ validationErrors = Undefined
    /\ nextCalls = <<>>
    /\ responses = <<>>
    /\ mwpc = "running"
    /\ step = 1
    /\ ran = <<>>

\* where the request goes after a middleware: on when it called next(), to the
\* error handling when it called next(error), nowhere when it did not call next
Routed(after, on) ==
    IF after.nextCalls = <<>> THEN "responded"
    ELSE IF after.nextCalls[1] = NoArg THEN on
    ELSE "failed"

\* the next phoneValidator middleware of the chain runs
RunValidator ==
    /\ mwpc = "running"
    /\ step \in 1..Len(chain)
    /\ \E after \in {phoneValidatorHandler(chain[step], body, validationErrors)} :
        /\ body' = after.body
        /\ validationErrors' = after.validationErrors
        /\ nextCalls' = nextCalls \o after.nextCalls
        /\ responses' = responses \o after.responses
        /\ ran' = Append(ran, [mw |-> "phoneValidator",
                               nextCalls |-> after.nextCalls,
                               responses |-> after.responses])
        /\ mwpc' = Routed(after, "running")
    /\ step' = step + 1
    /\ UNCHANGED <<options, body0, chain>>
    /\ UNCHANGED callVars

\* validateRequest runs after the last validator
RunValidateRequest ==
    /\ mwpc = "running"
    /\ step = Len(chain) + 1
    /\ \E after \in {validateRequest(body, validationErrors)} :
        /\ body' = after.body
        /\ validationErrors' = after.validationErrors
        /\ nextCalls' = nextCalls \o after.nextCalls
        /\ responses' = responses \o after.responses
        /\ ran' = Append(ran, [mw |-> "validateRequest",
                               nextCalls |-> after.nextCalls,
                               responses |-> after.responses])
        /\ mwpc' = Routed(after, "route")
    /\ step' = step + 1
    /\ UNCHANGED <<options, body0, chain>>
    /\ UNCHANGED callVars

NextPipe ==
    \/ RunValidator
    \/ RunValidateRequest

SpecPipe == InitPipe /\ [][NextPipe]_vars

----------------------------------------------------------------------------
(* Properties *)

\* a call of validatePhoneNumber(phoneNumber, country, type) has returned result
Returned == pc \in {"validated", "reparsed"}

Accepted == JsTruthy(result.isValid)

NonEmptyString(v) == v.kind = "string" /\ v.str # <<>>

cleanedInput == replaceAll(phoneNumber.str, WhiteSpace \cup {"-"})

\* the country defines grammar g and it matches s
Matches(c, g, s) ==
    /\ HasGrammar(c, g)
    /\ \E alt \in PHONE_PATTERNS[c].props[g] : MatchAt(alt, 1, s, 1)

\* the dial codes the claims name
DialCode ==
    [IN |-> <<"+", "9", "1">>, US |-> <<"+", "1">>, UK |-> <<"+", "4", "4">>]

\* C1: in every result of validatePhoneNumber, the number is accepted iff
\* error is null, iff errorType is null, iff formatted is a non-null string;
\* a rejected result has errorType 'required' or 'invalidFormat' and a null
\* formatted.
C1_ResultConsistent ==
    Returned =>
        /\ Accepted <=> (result.error = Null)
        /\ Accepted <=> (result.errorType = Null)
        /\ Accepted <=> (result.formatted.kind = "string")
        /\ ~Accepted =>
              /\ result.errorType \in {Str(<<"required">>), Str(<<"invalidFormat">>)}
              /\ result.formatted = Null

C1_Witness ==
    /\ pc = "validated"
    /\ Accepted
    /\ result.error = Null
    /\ result.formatted.kind = "string"

\* C2: validatePhoneNumber returns for every input, and the isValid field of
\* the result is exactly the boolean true or the boolean false.
C2_IsValidBoolean == Returned => result.isValid \in {"true", "false"}

\* C3: an accepted number's formatted field, for IN, US and UK, starts with
\* the country's dial code and has only digits after the leading '+' (and no
\* national leading 0 after +44).
C3_CanonicalForm ==
    (Returned /\ Accepted /\ country \in Supported) =>
        LET f == result.formatted.str
        IN  /\ startsWith(f, DialCode[country])
            /\ \A i \in 2..Len(f) : f[i] \in Digit
            /\ country = "UK" => (Len(f) >= 4 /\ f[4] # "0")

\* C4: for a supported country and a non-empty string, type 'mobile' accepts
\* iff the mobile or the withCountryCode grammar matches the cleaned input,
\* 'landline' iff the country has a landline grammar and it matches (never for
\* US), 'any' iff one of the three matches, which is iff 'mobile' or 'landline'
\* accepts the input; any other type rejects.
C4_TypeDecision ==
    (Returned /\ country \in Supported /\ NonEmptyString(phoneNumber)) =>
        LET m == Matches(country, "mobile", cleanedInput)
            l == Matches(country, "landline", cleanedInput)
            w == Matches(country, "withCountryCode", cleanedInput)
        IN  /\ type = "mobile" => (Accepted <=> (m \/ w))
            /\ type = "landline" => (Accepted <=> l)
            /\ (type = "landline" /\ country = "US") => ~Accepted
            /\ type = "any" =>
                  /\ Accepted <=> (m \/ l \/ w)
                  /\ Accepted <=>
                        \/ JsTruthy(validatePhoneNumber(phoneNumber, country, "mobile").isValid)
                        \/ JsTruthy(validatePhoneNumber(phoneNumber, country, "landline").isValid)
            /\ type \notin {"mobile", "landline", "any"} => ~Accepted

C4_Witness ==
    /\ pc = "validated"
    /\ country = "IN"
    /\ type = "mobile"
    /\ NonEmptyString(phoneNumber)
    /\ Matches(country, "withCountryCode", cleanedInput)
    /\ ~Matches(country, "mobile", cleanedInput)
    /\ Accepted

\* C5: for a country code other than IN, US, UK and a non-empty string, the
\* result is isValid false, formatted null, errorType 'invalidFormat' and the
\* error 'Unsupported country code: <country>'.
C5_UnsupportedCountry ==
    (Returned /\ country \notin Supported /\ NonEmptyString(phoneNumber)) =>
        /\ result.isValid = "false"
        /\ result.formatted = Null
        /\ result.errorType = Str(<<"invalidFormat">>)
        /\ result.error = Str(<<"Unsupported country code: ", country>>)

Range(q) == {q[i] : i \in 1..Len(q)}

\* C6: getSupportedCountries() returns exactly IN, US and UK, each once, and
\* validatePhoneNumber accepts at least one number for each code returned.
C6_SupportedCountries ==
    pc = "listed" =>
        /\ Range(supported) = {"IN", "US", "UK"}
        /\ Len(supported) = 3
        /\ \A c \in Range(supported) :
              \E x \in Inputs, t \in Types :
                  JsTruthy(validatePhoneNumber(x, c, t).isValid)

\* C7: every example of getFormatExamples(country, class), for IN, US, UK and
\* mobile, landline, is accepted by validatePhoneNumber for that country and
\* class.
C7_ExamplesValidate ==
    (/\ pc = "validated"
     /\ country \in Supported
     /\ type \in {"mobile", "landline"}
     /\ phoneNumber.kind = "string"
     /\ phoneNumber.str \in Range(getFormatExamples(country, type)))
        => Accepted

\* C8: formatPhone in mode 'custom' without a formatter function, on a valid
\* number, signals a configuration error and does not return the output of
\* another mode.
C8_CustomNeedsFormatter ==
    (/\ pc = "formatted"
     /\ format = "custom"
     /\ customFormatter.kind # "function"
     /\ JsTruthy(validatePhoneNumber(phoneNumber, country, "any").isValid))
        => /\ output.kind = "throw"
           /\ output # formatPhone(phoneNumber, country, "auto", customFormatter)

\* C9: for the modes auto, international, national and raw, formatPhone
\* returns an input that validatePhoneNumber(., country, 'any') does not
\* accept unchanged, as a returned value.
C9_InvalidReturnedUnchanged ==
    (/\ pc = "formatted"
     /\ format \in {"auto", "international", "national", "raw"}
     /\ ~JsTruthy(validatePhoneNumber(phoneNumber, country, "any").isValid))
        => output = Return(phoneNumber)

C9_Witness ==
    /\ pc = "formatted"
    /\ format = "auto"
    /\ country = "IN"
    /\ NonEmptyString(phoneNumber)
    /\ \A i \in 1..Len(phoneNumber.str) : phoneNumber.str[i] \in Digit
    /\ ~JsTruthy(validatePhoneNumber(phoneNumber, country, "any").isValid)
    /\ output = Return(phoneNumber)

\* C10: the raw rendering of an accepted number's canonical form is accepted
\* again by validatePhoneNumber for the same supported country and class.
C10_RawRoundTrip ==
    (/\ pc = "reparsed"
     /\ country \in Supported
     /\ type \in {"mobile", "landline", "any"})
        => Accepted

\* validatePhoneNumber(phoneNumber, country, 'any') accepts the input
AcceptedAsAny == JsTruthy(validatePhoneNumber(phoneNumber, country, "any").isValid)

AllDigits(s) == \A i \in 1..Len(s) : s[i] \in Digit

\* the national digits of an input: its digits without the dial code and
\* without the UK trunk 0
NationalDigitsOf(x, c) ==
    LET d == SelectSeq(x, LAMBDA ch : ch \in Digit \cup {"+"})
    IN  IF startsWith(d, DialCode[c]) THEN substring(d, Len(DialCode[c]))
        ELSE IF c = "UK" /\ startsWith(d, <<"0">>) THEN substring(d, 1)
        ELSE d

\* C11: for an input accepted under 'any', formatPhone(x, country, 'auto') is
\* '+91 ' and the national digits for IN, '+1 (AAA) EEE-NNNN' for US and
\* '+44 DDDD DDD DDD' for UK, the last two with exactly ten national digits.
C11_AutoLayout ==
    (/\ pc = "formatted"
     /\ format = "auto"
     /\ country \in Supported
     /\ AcceptedAsAny)
        => LET n == NationalDigitsOf(phoneNumber.str, country)
               o == output.value.str
           IN  /\ output.kind = "return"
               /\ AllDigits(n)
               /\ country = "IN" => o = <<"+", "9", "1", " ">> \o n
               /\ country = "US" =>
                     /\ Len(n) = 10
                     /\ o = <<"+", "1", " ", "(">> \o SubSeq(n, 1, 3) \o <<")", " ">>
                            \o SubSeq(n, 4, 6) \o <<"-">> \o SubSeq(n, 7, 10)
               /\ country = "UK" =>
                     /\ Len(n) = 10
                     /\ o = <<"+", "4", "4", " ">> \o SubSeq(n, 1, 4) \o <<" ">>
                            \o SubSeq(n, 5, 7) \o <<" ">> \o SubSeq(n, 8, 10)

\* C12: for an input accepted under 'any', formatPhone(x, country, 'national')
\* is digits only, and the dial code followed by it is
\* formatPhone(x, country, 'international').
C12_NationalPlusDialCode ==
    (/\ pc = "formatted"
     /\ format = "national"
     /\ country \in Supported
     /\ AcceptedAsAny)
        => /\ output.kind = "return"
           /\ AllDigits(output.value.str)
           /\ Str(DialCode[country] \o output.value.str)
                 = formatPhone(phoneNumber, country, "international",
                               customFormatter).value

\* C13: rendering in 'international' mode is idempotent: the renderer, and
\* formatPhone, applied to their own output return it unchanged.
C13_InternationalIdempotent ==
    (pc \in {"renderedAgain", "formattedAgain"} /\ format = "international")
        => output = Return(phoneNumber)

C13_Witness ==
    /\ pc = "formattedAgain"
    /\ format = "international"
    /\ country \in Supported
    /\ AcceptedAsAny
    /\ output = Return(phoneNumber)

\* C14: with mode 'custom' and a formatter function, formatPhone on an input
\* accepted under 'any' calls the formatter exactly once, with the canonical
\* form and the country, and what the formatter returns is what formatPhone
\* returns.
C14_CustomVerbatim ==
    (/\ pc = "formatted"
     /\ format = "custom"
     /\ customFormatter.kind = "function"
     /\ AcceptedAsAny)
        => LET f == validatePhoneNumber(phoneNumber, country, "any").formatted
           IN  /\ output.calls = << <<f, country>> >>
               /\ customFormatter = Fn =>
                     /\ output.kind = "return"
                     /\ output.value = CallFormatter(f, country)
               /\ customFormatter = Thrower => output.kind = "throw"

C14_Witness ==
    /\ pc = "formatted"
    /\ format = "custom"
    /\ customFormatter = Fn
    /\ country = "IN"
    /\ AcceptedAsAny
    /\ ~startsWith(phoneNumber.str, <<"+">>)
    /\ output.kind = "return"
    /\ output.value = Str(<<"[", "IN", "] ", "+", "9", "1">> \o cleanedInput)

\* C15: validatePhoneNumber('555-123-4567', 'US', 'mobile') returns isValid
\* true and formatted '+15551234567'.
C15_ReadmeUSMobile ==
    (/\ pc = "validated"
     /\ phoneNumber = Str(<<"5", "5", "5", "-", "1", "2", "3", "-", "4", "5", "6", "7">>)
     /\ country = "US"
     /\ type = "mobile")
        => /\ result.isValid = "true"
           /\ result.formatted
                 = Str(<<"+", "1", "5", "5", "5", "1", "2", "3", "4", "5", "6", "7">>)

\* C16: a phoneNumber that is null, undefined, empty or not a string gives
\* isValid false, formatted null and errorType 'required' for every country,
\* supported or not, and every type.
C16_MissingInputFirst ==
    (Returned /\ (Falsy(phoneNumber) \/ phoneNumber.kind # "string"))
        => /\ result.isValid = "false"
           /\ result.formatted = Null
           /\ result.errorType = Str(<<"required">>)

C16_Witness ==
    /\ pc = "validated"
    /\ phoneNumber = Null
    /\ country = "XX"
    /\ result.errorType = Str(<<"required">>)

----------------------------------------------------------------------------
(* Properties of the middleware *)

Ran == mwpc = "done"

\* the value of the configured field, as received
submitted == body0[options.fieldName]

\* what validatePhoneNumber says of the submitted value
verdict == validatePhoneNumber(submitted, options.country, options.type)

Blankish(v) == v.kind = "string" /\ v.str # <<>> /\ trim(v.str) = <<>>

\* one 400 response, whose errors list is one record for the configured field
OneFailure ==
    /\ Len(responses) = 1
    /\ responses[1].status = 400
    /\ Len(responses[1].json.errors) = 1
    /\ responses[1].json.errors[1].path = options.fieldName
    /\ responses[1].json.errors[1].value = submitted
    /\ responses[1].json.errors[1].location = "body"
    /\ responses[1].json.errors[1].msg.kind = "string"
    /\ responses[1].json.errors[1].msg.str # <<>>

reportedMessage == responses[1].json.errors[1].msg

OthersUnchanged ==
    \A k \in DOMAIN body0 \ {options.fieldName} : body[k] = body0[k]

rendering ==
    formatPhoneNumberWithOptions(verdict.formatted, options.country,
                                 options.format, options.customFormatter)

\* C18 as stated: when the configured field holds a string validatePhoneNumber
\* accepts with canonical form f, after the middleware runs req.body[field] is
\* the rendering of f under the configured format and custom formatter, every
\* other field is unchanged, next is called exactly once with no argument, and
\* no response is sent.
C18_AcceptedIsRendered ==
    (Ran /\ submitted.kind = "string" /\ JsTruthy(verdict.isValid))
        => /\ body[options.fieldName] = rendering.value
           /\ OthersUnchanged
           /\ nextCalls = <<NoArg>>
           /\ responses = <<>>

\* C18 amended: the same when the rendering returns; when the custom formatter
\* throws, req.body is left as received, next is called once with the error
\* thrown, and no response is sent.
C18_AcceptedIsRenderedOrFails ==
    (Ran /\ submitted.kind = "string" /\ JsTruthy(verdict.isValid))
        => IF rendering.kind = "return"
           THEN /\ body[options.fieldName] = rendering.value
                /\ OthersUnchanged
                /\ nextCalls = <<NoArg>>
                /\ responses = <<>>
           ELSE /\ body = body0
                /\ nextCalls = <<rendering.value>>
                /\ responses = <<>>

C18_Witness ==
    /\ Ran
    /\ submitted.kind = "string"
    /\ JsTruthy(verdict.isValid)
    /\ rendering.kind = "return"
    /\ options.format = "national"
    /\ body[options.fieldName] = rendering.value
    /\ body[options.fieldName] # submitted
    /\ body[options.fieldName] # verdict.formatted
    /\ body0.alt # Undefined
    /\ nextCalls = <<NoArg>>

\* the field is absent, empty or whitespace-only
Missing(v) == Falsy(v) \/ (v.kind = "string" /\ trim(v.str) = <<>>)

\* the 'required' message of the configuration
requiredMessage ==
    IF options.customMessage # Null THEN options.customMessage
    ELSE IF options.errorMessages.required # Undefined
    THEN options.errorMessages.required
    ELSE Str(<<options.fieldName, " is required">>)

emptyMessage ==
    IF options.errorMessages.empty # Undefined
    THEN options.errorMessages.empty
    ELSE Str(<<options.fieldName, " cannot be empty">>)

\* C20: when a required field's value is a non-empty string of whitespace only,
\* the reported error message is the 'empty' message: errorMessages.empty if
\* configured, otherwise '<field> cannot be empty'.
C20_BlankGetsEmptyMessage ==
    (Ran /\ options.required /\ Blankish(submitted))
        => (Len(responses) = 1 /\ reportedMessage = emptyMessage)

\* C22: with the legacy customMessage option set, every validation failure the
\* middleware reports for the field, a missing required field as well as a
\* present value validatePhoneNumber rejects, carries customMessage as its
\* message.
C22_CustomMessageCarried ==
    (Ran /\ options.customMessage # Null /\ Len(responses) = 1)
        => reportedMessage = options.customMessage

\* C24: for a field value of any type the middleware either calls next() with
\* no argument or sends a 400 validation response; it calls next(error) only
\* when the custom formatter throws.
C24_NoFaultOnData ==
    Ran => \/ (nextCalls = <<NoArg>> /\ responses = <<>>)
           \/ (nextCalls = <<>> /\ Len(responses) = 1
                                /\ responses[1].status = 400)
           \/ (nextCalls = <<FormatterError>> /\ responses = <<>>
                                /\ options.format = "custom"
                                /\ options.customFormatter = Thrower)

----------------------------------------------------------------------------
(* Properties of a chain of middlewares *)

\* a validator of the chain rejected the request with a 400 response
RejectedByValidator ==
    \E i \in 1..Len(ran) :
        /\ ran[i].mw = "phoneValidator"
        /\ Len(ran[i].responses) = 1
        /\ ran[i].responses[1].status = 400

\* C21: when several phoneValidator middlewares for distinct fields run in
\* sequence on one request and one of them rejects it with a 400 response,
\* req.body is then identical to the body as received: no field, not even one
\* that passed an earlier validator, has been overwritten with its rendering.
C21_NoPartialMutation ==
    (Len(chain) >= 2 /\ RejectedByValidator) => body = body0

\* one run of a middleware ended in exactly one of: next called once, or one
\* response sent
OneOutcome(r) == Len(r.nextCalls) + Len(r.responses) = 1

\* the middleware did not pass the request on with next()
Stops(r) == r.nextCalls # <<NoArg>>

\* C23: every run of a phoneValidator middleware ends with exactly one of two
\* outcomes, once: next is called once, or one 400 response is sent; so in a
\* chain of validators followed by validateRequest at most one response is sent
\* and the first failing validator stops the chain: no later validator and no
\* validateRequest runs.
C23_OneOutcomePerRun ==
    /\ \A i \in 1..Len(ran) :
          /\ ran[i].mw = "phoneValidator" => OneOutcome(ran[i])
          /\ \A k \in 1..Len(ran[i].responses) : ran[i].responses[k].status = 400
          /\ Stops(ran[i]) => i = Len(ran)
    /\ Len(responses) <= 1
    /\ Len(ran) <= Len(chain) + 1

C23_Witness ==
    /\ Len(chain) = 2
    /\ Len(ran) = 1
    /\ mwpc = "responded"
    /\ Len(responses) = 1
    /\ nextCalls = <<>>
    /\ chain[1].fieldName = "phone"
    /\ body0.alt = Str(<<"9", "8", "7", "6", "5", "4", "3", "2", "1", "0">>)
    /\ chain[2].country = "IN"

====
